---- MODULE Spec2Model ----
(***************************************************************************)
(* CustomMaterial (src/src/extensions/material-creator/material.ts): the   *)
(* readiness check isReadyForSubMesh, bindForSubMesh and dispose, run      *)
(* against a scene with two meshes (one sub-mesh each), two materials and  *)
(* two textures.  The babylonjs helpers the material calls (MaterialHelper,*)
(* MaterialDefines, Engine.createEffect, PushMaterial) are modelled at the *)
(* call sites, by what the call does to the state the material reads.      *)
(***************************************************************************)
EXTENDS Integers, FiniteSets, Sequences, TLC

\* ------------------------------------------------------------------ bounds
MaxFrame == 1
MaxChanges == 1
MaxLights == 1

\* --------------------------------------------------------------- universe
None == "none"
Materials == {"m1", "m2"}
Meshes == {"a", "b"}
Textures == {"t1", "t2"}
Names == {"A", "B"}

\* The geometry of the two meshes: "a" carries normals and one UV channel,
\* "b" carries normals only and is skinned.
MeshHasNormals == [a |-> TRUE, b |-> TRUE]
MeshHasUV == [a |-> TRUE, b |-> FALSE]
MeshBoneInfluencers == [a |-> 0, b |-> 4]

VARIABLES
    renderId,               \* scene.getRenderId()
    texturesEnabled,        \* scene.texturesEnabled
    DiffuseTextureEnabled,  \* StandardMaterial.DiffuseTextureEnabled
    lightCount,             \* number of lights of the scene
    sceneFog,               \* scene fog mode is not FOGMODE_NONE
    texState,               \* per texture: "loading", "ready", "disposed"
    mat,                    \* per material: its fields
    meshMaterial,           \* mesh.material
    sub,                    \* per sub-mesh: _materialDefines and effect
    effects,                \* engine._compiledEffects: key -> status
    instanced,              \* per mesh: drawn with hardware instances
    cached,                 \* scene._cachedMaterial / _cachedEffect
    stable,                 \* the sub-mesh of the last compile request, None once its material, mesh or scene changed
    changes,                \* number of configuration changes made so far
    thrown,                 \* the error the last constructor call threw, None if it returned
    folders                 \* dat.GUI: folder name -> the vector given and its controllers

vars == <<renderId, texturesEnabled, DiffuseTextureEnabled, lightCount, sceneFog,
          texState, mat, meshMaterial, instanced, sub, effects, cached, stable,
          changes, thrown, folders>>


\* ------------------------------------------------- CustomMaterialDefines
maxSimultaneousLights == 4

\* new CustomMaterialDefines(): every flag off, every dirty domain set.
\* LIGHTS stands for the defines LIGHT0 .. LIGHT<n-1> the lights helper adds.
CustomMaterialDefines ==
    [DIFFUSE |-> FALSE, FOG |-> FALSE, NORMAL |-> FALSE, UV1 |-> FALSE,
     NUM_BONE_INFLUENCERS |-> 0, INSTANCES |-> FALSE, LIGHTS |-> 0,
     _isDirty |-> TRUE, _areTexturesDirty |-> TRUE, _areLightsDirty |-> TRUE,
     _areMiscDirty |-> TRUE, _areAttributesDirty |-> TRUE,
     _needUVs |-> FALSE, _needNormals |-> FALSE, _uvs |-> FALSE, _normals |-> FALSE]

Flag(b, name) == IF b THEN <<name>> ELSE <<>>

Digits == [i \in 0..4 |-> <<"0", "1", "2", "3", "4">>[i + 1]]

LightNames == <<"LIGHT0", "LIGHT1", "LIGHT2", "LIGHT3">>

\* defines.toString(): the flags that are on, in schema order, numbers with
\* their value; the dirty bits are not part of it.
toString(d) ==
    Flag(d.DIFFUSE, "DIFFUSE") \o Flag(d.FOG, "FOG") \o Flag(d.NORMAL, "NORMAL")
    \o Flag(d.UV1, "UV1") \o <<"NUM_BONE_INFLUENCERS", Digits[d.NUM_BONE_INFLUENCERS]>>
    \o Flag(d.INSTANCES, "INSTANCES") \o SubSeq(LightNames, 1, d.LIGHTS)

\* A markAsProcessed that clears the per-domain bits and leaves isDirty set.
markAsProcessedKeepsDirty(d) ==
    [d EXCEPT !._areTexturesDirty = FALSE, !._areLightsDirty = FALSE,
              !._areMiscDirty = FALSE, !._areAttributesDirty = FALSE]

markAsProcessed(d) ==
    [d EXCEPT !._isDirty = FALSE, !._areTexturesDirty = FALSE,
              !._areLightsDirty = FALSE, !._areMiscDirty = FALSE,
              !._areAttributesDirty = FALSE]

markAsTexturesDirty(d) == [d EXCEPT !._areTexturesDirty = TRUE, !._isDirty = TRUE]
markAsLightDirty(d) == [d EXCEPT !._areLightsDirty = TRUE, !._isDirty = TRUE]
markAsMiscDirty(d) == [d EXCEPT !._areMiscDirty = TRUE, !._isDirty = TRUE]

\* ------------------------------------------------------ textures, effects
TextureIsReady(t) == texState[t] = "ready"

EffectIsReady(e) == effects[e] = "ready"

\* A textures domain that takes DIFFUSE from a texture without waiting for it.
TexturesDomainNoWait(d, texture) ==
    IF ~d._areTexturesDirty
    THEN [ready |-> TRUE, defines |-> d]
    ELSE LET d1 == [d EXCEPT !._needUVs = FALSE]
         IN IF texturesEnabled /\ texture # None /\ DiffuseTextureEnabled
            THEN [ready |-> TRUE,
                  defines |-> [d1 EXCEPT !._needUVs = TRUE, !.DIFFUSE = TRUE]]
            ELSE [ready |-> TRUE, defines |-> d1]

\* A textures domain whose "return false" clears the textures-dirty bit.
TexturesDomainClearsTextures(d, texture) ==
    IF ~d._areTexturesDirty
    THEN [ready |-> TRUE, defines |-> d]
    ELSE LET d1 == [d EXCEPT !._needUVs = FALSE]
         IN IF texturesEnabled /\ texture # None /\ DiffuseTextureEnabled
            THEN IF texState[texture] # "ready"
                 THEN [ready |-> FALSE, defines |-> [d1 EXCEPT !._areTexturesDirty = FALSE]]
                 ELSE [ready |-> TRUE,
                       defines |-> [d1 EXCEPT !._needUVs = TRUE, !.DIFFUSE = TRUE]]
            ELSE [ready |-> TRUE, defines |-> d1]

\* A textures domain whose "return false" leaves the defines marked processed.
TexturesDomainForgets(d, texture) ==
    IF ~d._areTexturesDirty
    THEN [ready |-> TRUE, defines |-> d]
    ELSE LET d1 == [d EXCEPT !._needUVs = FALSE]
         IN IF texturesEnabled /\ texture # None /\ DiffuseTextureEnabled
            THEN IF texState[texture] # "ready"
                 THEN [ready |-> FALSE,
                       defines |-> [d1 EXCEPT !._isDirty = FALSE,
                                              !._areTexturesDirty = FALSE,
                                              !._areLightsDirty = FALSE,
                                              !._areMiscDirty = FALSE,
                                              !._areAttributesDirty = FALSE]]
                 ELSE [ready |-> TRUE,
                       defines |-> [d1 EXCEPT !._needUVs = TRUE, !.DIFFUSE = TRUE]]
            ELSE [ready |-> TRUE, defines |-> d1]

\* ------------------------------------- the dirty domains of isReadyForSubMesh
\* Textures: [ready |-> FALSE] is the early "return false".
TexturesDomain(d, texture) ==
    IF ~d._areTexturesDirty
    THEN [ready |-> TRUE, defines |-> d]
    ELSE LET d1 == [d EXCEPT !._needUVs = FALSE]
         IN IF texturesEnabled /\ texture # None /\ DiffuseTextureEnabled
            THEN IF ~TextureIsReady(texture)
                 THEN [ready |-> FALSE, defines |-> d1]
                 ELSE [ready |-> TRUE,
                       defines |-> [d1 EXCEPT !._needUVs = TRUE, !.DIFFUSE = TRUE]]
            ELSE [ready |-> TRUE, defines |-> d1]

\* MaterialHelper.PrepareDefinesForMisc: fog applies when the scene has fog
\* (the material's fogEnabled and the mesh's applyFog keep their default, true).
PrepareDefinesForMisc(d) ==
    IF d._areMiscDirty THEN [d EXCEPT !.FOG = sceneFog] ELSE d

Min(x, y) == IF x < y THEN x ELSE y

\* MaterialHelper.PrepareDefinesForLights, its result stored in _needNormals.
PrepareDefinesForLights(d, maxLights, disableLighting) ==
    IF ~d._areLightsDirty
    THEN d
    ELSE LET n == IF disableLighting THEN 0 ELSE Min(lightCount, maxLights)
         IN [d EXCEPT !.LIGHTS = n, !._needNormals = (n > 0)]

\* MaterialHelper.PrepareDefinesForFrameBoundValues: a changed value marks
\* the defines unprocessed.
PrepareDefinesForFrameBoundValues(d, useInstances) ==
    IF d.INSTANCES # useInstances
    THEN [d EXCEPT !.INSTANCES = useInstances, !._isDirty = TRUE]
    ELSE d

\* MaterialHelper.PrepareDefinesForAttributes(mesh, defines, true, true).
PrepareDefinesForAttributes(mesh, d) ==
    IF ~d._areAttributesDirty /\ d._needNormals = d._normals /\ d._needUVs = d._uvs
    THEN d
    ELSE [d EXCEPT !._normals = d._needNormals, !._uvs = d._needUVs,
                   !.NORMAL = d._needNormals /\ MeshHasNormals[mesh],
                   !.UV1 = d._needUVs /\ MeshHasUV[mesh],
                   !.NUM_BONE_INFLUENCERS = MeshBoneInfluencers[mesh]]

\* Fallbacks without the CPU-skinning step.
FallbacksWithoutSkinning(d, maxLights) ==
    (IF d.FOG THEN <<<<1, "FOG">>>> ELSE <<>>)
    \o (IF Min(d.LIGHTS, maxLights) > 1
        THEN [i \in 1..(Min(d.LIGHTS, maxLights) - 1) |-> <<i, LightNames[i + 1]>>]
        ELSE <<>>)

\* Fallbacks with the CPU-skinning step ranked after every other step.
FallbacksSkinningRankedLast(d, maxLights) ==
    (IF d.FOG THEN <<<<1, "FOG">>>> ELSE <<>>)
    \o (IF Min(d.LIGHTS, maxLights) > 1
        THEN [i \in 1..(Min(d.LIGHTS, maxLights) - 1) |-> <<i, LightNames[i + 1]>>]
        ELSE <<>>)
    \o (IF d.NUM_BONE_INFLUENCERS > 0 THEN <<<<maxLights, "CPUSkinning">>>> ELSE <<>>)

\* ------------------------------------------------ the compile request
\* The fallbacks, in the order they are added: <<rank, step>>.
Fallbacks(d, maxLights) ==
    (IF d.FOG THEN <<<<1, "FOG">>>> ELSE <<>>)
    \o (IF Min(d.LIGHTS, maxLights) > 1
        THEN [i \in 1..(Min(d.LIGHTS, maxLights) - 1) |-> <<i, LightNames[i + 1]>>]
        ELSE <<>>)
    \o (IF d.NUM_BONE_INFLUENCERS > 0 THEN <<<<0, "CPUSkinning">>>> ELSE <<>>)

Attribs(d) ==
    <<"position">> \o Flag(d.NORMAL, "normal") \o Flag(d.UV1, "uv")
    \o (IF d.NUM_BONE_INFLUENCERS > 0
        THEN <<"matricesIndices", "matricesWeights">> ELSE <<>>)
    \o (IF d.INSTANCES THEN <<"world0", "world1", "world2", "world3">> ELSE <<>>)

\* A lookup key made of the defines alone.
EffectKeyWithoutName(shaderName, join) == <<"", join>>

\* engine.createEffect(shaderName, options): the engine looks the program up
\* under the shader name and the defines string.
EffectKey(shaderName, join) == <<shaderName, join>>

Request(m, d) ==
    [shaderName |-> mat[m].name, defines |-> toString(d), attributes |-> Attribs(d),
     fallbacks |-> Fallbacks(d, maxSimultaneousLights),
     key |-> EffectKey(mat[m].name, toString(d))]


\* ----------------------------------------------------- isReadyForSubMesh
NoDefines == <<>>
NoEffect == <<>>
NoRequest == <<>>
NoCached == [material |-> None, effect |-> NoEffect]

_disableLighting == FALSE

\* A frozen short-circuit that answers only in the frame of the last ready.
FrozenReadyThisFrame(m, s) ==
    mat[m].checkReadyOnlyOnce /\ mat[m]._wasPreviouslyReady /\ sub[s].effect # NoEffect
    /\ mat[m]._renderId = renderId

\* A frame-counter short-circuit that compares with the frame before.
SameFrameReadyOffByOne(m, s) ==
    ~mat[m].checkReadyOnEveryCall /\ sub[s].effect # NoEffect
    /\ mat[m]._renderId = renderId - 1

\* The frozen short-circuit (lines 105-109).
FrozenReady(m, s) ==
    mat[m].checkReadyOnlyOnce /\ mat[m]._wasPreviouslyReady /\ sub[s].effect # NoEffect

\* The frame-counter short-circuit (lines 118-122).
SameFrameReady(m, s) ==
    ~mat[m].checkReadyOnEveryCall /\ sub[s].effect # NoEffect
    /\ mat[m]._renderId = renderId

\* A pass that leaves the lights domain out.
PrepareDefinesSkipsLights(mesh, d, useInstances) ==
    CHOOSE d4 \in
        {PrepareDefinesForAttributes(mesh, d3) : d3 \in
            {PrepareDefinesForFrameBoundValues(d1, useInstances) :
                d1 \in {PrepareDefinesForMisc(d0) : d0 \in {d}}}} : TRUE

\* The domains after the textures domain let the pass through (lines
\* 141-151), each working on the defines the one before left (every stage is
\* evaluated once and its value handed on).
PrepareDefines(mesh, d, useInstances) ==
    CHOOSE d4 \in
        {PrepareDefinesForAttributes(mesh, d3) : d3 \in
            {PrepareDefinesForFrameBoundValues(d2, useInstances) : d2 \in
                {PrepareDefinesForLights(d1, maxSimultaneousLights, _disableLighting) :
                    d1 \in {PrepareDefinesForMisc(d0) : d0 \in {d}}}}} : TRUE

\* The status of effect e once a request for it has been served: the cached
\* program's, or "pending" for the program the request creates.
StatusAfter(e) ==
    IF e \in DOMAIN effects THEN effects[e] ELSE "pending"

\* "Get correct effect" and the final readiness test (lines 154-231), on the
\* defines d4 the domains produced: a compile request when they are dirty.
GetEffect(m, s, d4) ==
    LET d5 == IF d4._isDirty THEN markAsProcessed(d4) ELSE d4
        req == IF d4._isDirty THEN <<Request(m, d5)>> ELSE NoRequest
        eff == IF d4._isDirty THEN req[1].key ELSE sub[s].effect
        ready == eff # NoEffect /\ StatusAfter(eff) = "ready"
    IN  [result |-> ready, path |-> "full", defines |-> <<d5>>,
         effect |-> eff, request |-> req,
         _renderId |-> IF ready THEN renderId ELSE mat[m]._renderId,
         _wasPreviouslyReady |-> ready \/ mat[m]._wasPreviouslyReady]

\* What one call does: the value returned, the path taken, the sub-mesh's
\* defines and effect and the material's _renderId and _wasPreviouslyReady
\* after the call, and the compile request if one is issued.
IsReadyForSubMeshResult(m, s, useInstances) ==
    LET S == sub[s]
        keep == [result |-> TRUE, path |-> "frozen", defines |-> S._materialDefines,
                 effect |-> S.effect, request |-> NoRequest,
                 _renderId |-> mat[m]._renderId,
                 _wasPreviouslyReady |-> mat[m]._wasPreviouslyReady]
    IN  IF FrozenReady(m, s) THEN keep
        ELSE
        LET d0 == IF S._materialDefines = NoDefines
                  THEN CustomMaterialDefines ELSE S._materialDefines[1]
        IN  IF SameFrameReady(m, s)
            THEN [keep EXCEPT !.path = "sameFrame", !.defines = <<d0>>]
            ELSE
            LET tx == TexturesDomain(d0, mat[m]._diffuseTexture)
            IN  IF ~tx.ready
                THEN [keep EXCEPT !.result = FALSE, !.path = "textureNotReady",
                                  !.defines = <<tx.defines>>]
                ELSE CHOOSE r \in {GetEffect(m, s, d4) :
                                   d4 \in {PrepareDefines(s, tx.defines, useInstances)}} : TRUE

\* The renderer's call for sub-mesh s of a mesh using material m, with
\* useInstances set when the mesh is drawn with hardware instances.
IsReadyForSubMesh(m, s) ==
    /\ meshMaterial[s] = m
    /\ \E r \in {IsReadyForSubMeshResult(m, s, instanced[s])} :
           /\ sub' = [sub EXCEPT ![s] = [_materialDefines |-> r.defines,
                                         effect |-> r.effect]]
           /\ effects' = IF r.request # NoRequest /\ r.request[1].key \notin DOMAIN effects
                         THEN effects @@ (r.request[1].key :> "pending")
                         ELSE effects
           /\ mat' = [mat EXCEPT ![m]._renderId = r._renderId,
                                 ![m]._wasPreviouslyReady = r._wasPreviouslyReady]
           /\ cached' = IF r.request # NoRequest THEN NoCached ELSE cached
           /\ stable' = IF r.request # NoRequest THEN s ELSE stable
    /\ UNCHANGED <<thrown, folders, instanced, renderId, texturesEnabled, DiffuseTextureEnabled,
                   lightCount, sceneFog, texState, meshMaterial, changes>>

\* -------------------------------------------------------- bindForSubMesh
\* A rebind test that always asks for a rebind.
MustRebindAlways(m, effect) == TRUE

\* A rebind test on the material's own last bound effect instead of the
\* scene's cached material.
MustRebindByActiveEffect(m, effect) == mat[m]._activeEffect # effect

\* PushMaterial._mustRebind: scene.isCachedMaterialInvalid(this, effect).
MustRebind(m, effect) == cached.material # m \/ cached.effect # effect

\* The values written only when the program must be rebound (lines 255-273);
\* the scene has no clip plane and the material is not a points cloud.
SwitchScopedWrites(m) ==
    (IF mat[m]._diffuseTexture # None /\ DiffuseTextureEnabled
     THEN {"diffuseSampler", "vDiffuseInfos", "diffuseMatrix"} ELSE {})
    \cup {"vEyePosition"}

\* The values written on every call (lines 248-253, 275-288).
PerDrawWrites(m) ==
    {"world", "viewProjection", "vDiffuseColor"}
    \cup (IF ~_disableLighting /\ lightCount > 0 THEN {"vLightData"} ELSE {})
    \cup (IF sceneFog THEN {"view", "vFogInfos", "vFogColor"} ELSE {})

\* The uniforms and samplers one bindForSubMesh call writes.
BindForSubMeshWrites(m, s) ==
    IF sub[s]._materialDefines = NoDefines \/ sub[s].effect = NoEffect
    THEN {}
    ELSE PerDrawWrites(m)
         \cup (IF MustRebind(m, sub[s].effect) THEN SwitchScopedWrites(m) ELSE {})

BindForSubMesh(m, s) ==
    /\ meshMaterial[s] = m
    /\ IF sub[s]._materialDefines = NoDefines \/ sub[s].effect = NoEffect
       THEN UNCHANGED <<mat, cached>>
       ELSE /\ mat' = [mat EXCEPT ![m]._activeEffect = sub[s].effect]
            /\ cached' = [material |-> m, effect |-> sub[s].effect]
    /\ UNCHANGED <<thrown, folders, instanced, renderId, texturesEnabled, DiffuseTextureEnabled,
                   lightCount, sceneFog, texState, meshMaterial, sub, effects,
                   stable, changes>>

\* ------------------------------------------------------------ environment
\* PushMaterial._markAllSubMeshesAsDirty over the materials ms: the sub-meshes
\* of the meshes using one of them that have defines.
markAsDirty(d, flag) ==
    CASE flag = "Textures" -> markAsTexturesDirty(d)
      [] flag = "Lights" -> markAsLightDirty(d)
      [] flag = "Misc" -> markAsMiscDirty(d)

MarkSubMeshes(ms, flag) ==
    [s \in Meshes |->
        IF meshMaterial[s] \in ms /\ sub[s]._materialDefines # NoDefines
        THEN [sub[s] EXCEPT !._materialDefines = <<markAsDirty(@[1], flag)>>]
        ELSE sub[s]]

\* A change to material, mesh or scene feature state touching the materials ms.
Unstable(ms) ==
    IF stable # None /\ meshMaterial[stable] \in ms THEN None ELSE stable

Live == {m \in Materials : ~mat[m].disposed}

Changed == /\ changes < MaxChanges
           /\ changes' = changes + 1
       
\* The render loop moves to the next frame.
Render ==
    /\ renderId < MaxFrame
    /\ renderId' = renderId + 1
    /\ UNCHANGED <<thrown, folders, instanced, texturesEnabled, DiffuseTextureEnabled, lightCount, sceneFog,
                   texState, mat, meshMaterial, sub, effects, cached, stable, changes>>

\* A texture finishes loading; it is observed only through a material.
TextureLoaded(t) ==
    /\ texState[t] = "loading"
    /\ \E m \in Materials : mat[m]._diffuseTexture = t
    /\ texState' = [texState EXCEPT ![t] = "ready"]
    /\ UNCHANGED <<thrown, folders, instanced, renderId, texturesEnabled, DiffuseTextureEnabled, lightCount,
                   sceneFog, mat, meshMaterial, sub, effects, cached, stable, changes>>

\* A sub-mesh holds effect e.
Held(e) == \E s \in Meshes : sub[s].effect = e

\* The compilation of a program ends; it is observed only through a sub-mesh.
EffectCompiled(e) ==
    /\ effects[e] = "pending"
    /\ Held(e)
    /\ effects' = [effects EXCEPT ![e] = "ready"]
    /\ UNCHANGED <<thrown, folders, instanced, renderId, texturesEnabled, DiffuseTextureEnabled, lightCount,
                   sceneFog, texState, mat, meshMaterial, sub, cached, stable, changes>>

EffectFailed(e) ==
    /\ effects[e] = "pending"
    /\ Held(e)
    /\ effects' = [effects EXCEPT ![e] = "failed"]
    /\ UNCHANGED <<thrown, folders, instanced, renderId, texturesEnabled, DiffuseTextureEnabled, lightCount,
                   sceneFog, texState, mat, meshMaterial, sub, cached, stable, changes>>

\* material.diffuseTexture = t (expandToProperty, lines 59-60).
SetDiffuseTexture(m, t) ==
    /\ Changed
    /\ m \in Live
    /\ mat[m]._diffuseTexture # t
    /\ t # None => texState[t] # "disposed"
    /\ mat' = [mat EXCEPT ![m]._diffuseTexture = t]
    /\ sub' = MarkSubMeshes({m}, "Textures")
    /\ stable' = Unstable({m})
    /\ UNCHANGED <<thrown, folders, instanced, renderId, texturesEnabled, DiffuseTextureEnabled, lightCount,
                   sceneFog, texState, meshMaterial, effects, cached>>

\* scene.texturesEnabled = v.
SetTexturesEnabled(v) ==
    /\ Changed
    /\ texturesEnabled # v
    /\ texturesEnabled' = v
    /\ sub' = MarkSubMeshes(Live, "Textures")
    /\ stable' = Unstable(Materials)
    /\ UNCHANGED <<thrown, folders, instanced, renderId, DiffuseTextureEnabled, lightCount, sceneFog,
                   texState, mat, meshMaterial, effects, cached>>

\* StandardMaterial.DiffuseTextureEnabled = v.
SetDiffuseTextureEnabled(v) ==
    /\ Changed
    /\ DiffuseTextureEnabled # v
    /\ DiffuseTextureEnabled' = v
    /\ sub' = MarkSubMeshes(Live, "Textures")
    /\ stable' = Unstable(Materials)
    /\ UNCHANGED <<thrown, folders, instanced, renderId, texturesEnabled, lightCount, sceneFog,
                   texState, mat, meshMaterial, effects, cached>>

\* A light is added to or removed from the scene.
SetLightCount(n) ==
    /\ Changed
    /\ lightCount # n
    /\ lightCount' = n
    /\ sub' = MarkSubMeshes(Live, "Lights")
    /\ stable' = Unstable(Materials)
    /\ UNCHANGED <<thrown, folders, instanced, renderId, texturesEnabled, DiffuseTextureEnabled, sceneFog,
                   texState, mat, meshMaterial, effects, cached>>

\* scene.fogMode = ...
SetFogMode(v) ==
    /\ Changed
    /\ sceneFog # v
    /\ sceneFog' = v
    /\ sub' = MarkSubMeshes(Live, "Misc")
    /\ stable' = Unstable(Materials)
    /\ UNCHANGED <<thrown, folders, instanced, renderId, texturesEnabled, DiffuseTextureEnabled, lightCount,
                   texState, mat, meshMaterial, effects, cached>>

\* material.freeze() / material.unfreeze().
SetFrozen(m, v) ==
    /\ Changed
    /\ m \in Live
    /\ mat[m].checkReadyOnlyOnce # v
    /\ mat' = [mat EXCEPT ![m].checkReadyOnlyOnce = v]
    /\ UNCHANGED <<thrown, folders, instanced, renderId, texturesEnabled, DiffuseTextureEnabled, lightCount,
                   sceneFog, texState, meshMaterial, sub, effects, cached, stable>>

SetCheckReadyOnEveryCall(m, v) ==
    /\ Changed
    /\ m \in Live
    /\ mat[m].checkReadyOnEveryCall # v
    /\ mat' = [mat EXCEPT ![m].checkReadyOnEveryCall = v]
    /\ UNCHANGED <<thrown, folders, instanced, renderId, texturesEnabled, DiffuseTextureEnabled, lightCount,
                   sceneFog, texState, meshMaterial, sub, effects, cached, stable>>

\* The mesh gains or loses its hardware instances.
SetInstances(s, v) ==
    /\ Changed
    /\ instanced[s] # v
    /\ instanced' = [instanced EXCEPT ![s] = v]
    /\ stable' = IF stable = s THEN None ELSE stable
    /\ UNCHANGED <<thrown, folders, renderId, texturesEnabled, DiffuseTextureEnabled, lightCount,
                   sceneFog, texState, mat, meshMaterial, sub, effects, cached>>

\* mesh.material = m: the mesh's sub-meshes lose their effect and defines.
SetMeshMaterial(s, m) ==
    /\ Changed
    /\ m \in Live
    /\ meshMaterial[s] # m
    /\ meshMaterial' = [meshMaterial EXCEPT ![s] = m]
    /\ sub' = [sub EXCEPT ![s] = [_materialDefines |-> NoDefines, effect |-> NoEffect]]
    /\ stable' = IF stable = s THEN None ELSE stable
    /\ UNCHANGED <<thrown, folders, instanced, renderId, texturesEnabled, DiffuseTextureEnabled, lightCount,
                   sceneFog, texState, mat, effects, cached>>

\* dispose(forceDisposeEffect) (lines 325-331): the diffuse texture is
\* disposed, whoever else holds it, then PushMaterial.dispose takes the
\* material off its meshes (mesh.material = null clears their sub-meshes'
\* effect and defines). What the engine does with compiled programs on a
\* forced dispose is decided inside Babylon.js and is left out: the programs
\* stay as they are.
Dispose(m, forceDisposeEffect) ==
    /\ Changed
    /\ m \in Live
    /\ texState' = IF mat[m]._diffuseTexture # None
                   THEN [texState EXCEPT ![mat[m]._diffuseTexture] = "disposed"]
                   ELSE texState
    /\ sub' = [s \in Meshes |->
                  IF meshMaterial[s] = m
                  THEN [_materialDefines |-> NoDefines, effect |-> NoEffect]
                  ELSE sub[s]]
    /\ meshMaterial' = [s \in Meshes |->
                           IF meshMaterial[s] = m THEN None ELSE meshMaterial[s]]
    /\ mat' = [mat EXCEPT ![m].disposed = TRUE]
    /\ stable' = Unstable({m})
    /\ UNCHANGED <<thrown, folders, effects, instanced, renderId, texturesEnabled, DiffuseTextureEnabled,
                   lightCount, sceneFog, cached>>

\* ------------------------------------------------------- specification
\* new CustomMaterial(name, scene, customCode).
\* The members of the CustomMaterialCode interface (lines 44-51).
Callbacks ==
    {"constructor", "isReadyForSubMesh", "bindForSubMesh", "dispose", "serialize", "parse"}

\* A custom code object: null, or an object with some of the callbacks as
\* own function properties.
NullCode == [isNull |-> TRUE, own |-> {}]

CompleteCode == [isNull |-> FALSE, own |-> Callbacks]

\* The material's fields after construction with the application's complete
\* custom code.
NewMaterial(name) ==
    [name |-> name, _diffuseTexture |-> None, checkReadyOnlyOnce |-> FALSE,
     checkReadyOnEveryCall |-> FALSE, _renderId |-> -1,
     _wasPreviouslyReady |-> FALSE, _activeEffect |-> NoEffect, disposed |-> FALSE,
     _customCode |-> CompleteCode]

\* The scene before its first frame, with the materials' names, textures and
\* frozen flag and the meshes' materials as the application set them up.
Setup(names, textures, frozen, materials) ==
    /\ renderId = 0
    /\ texturesEnabled = TRUE
    /\ DiffuseTextureEnabled = TRUE
    /\ lightCount = 0
    /\ sceneFog = FALSE
    /\ texState = [t \in Textures |-> "loading"]
    /\ mat = [m \in Materials |->
                 [NewMaterial(names[m]) EXCEPT !._diffuseTexture = textures[m],
                                               !.checkReadyOnlyOnce = frozen[m]]]
    /\ meshMaterial = materials
    /\ instanced = [s \in Meshes |-> FALSE]
    /\ sub = [s \in Meshes |-> [_materialDefines |-> NoDefines, effect |-> NoEffect]]
    /\ effects = << >>
    /\ cached = NoCached
    /\ stable = None
    /\ changes = 0
    /\ thrown = None
    /\ folders = << >>

\* The events of the render loop and of the loaders.
Poll(m) ==
    \/ \E s \in Meshes : IsReadyForSubMesh(m, s)
    \/ Render
    \/ TextureLoaded("t1")
    \/ \E e \in DOMAIN effects : EffectCompiled(e)

\* One material ("m1") on both meshes, frozen or not before the first frame;
\* the second material is constructed and idle.
Init ==
    \E f \in BOOLEAN :
        Setup([m \in Materials |-> "A"], [m \in Materials |-> None],
              [m \in Materials |-> m = "m1" /\ f], [s \in Meshes |-> "m1"])

\* The readiness check of one material under every change of its texture, of
\* its modes, of the meshes and of the scene; texture "t2" stays loading.
Next ==
    \/ Poll("m1")
    \/ \E e \in DOMAIN effects : EffectFailed(e)
    \/ \E t \in Textures \cup {None} : SetDiffuseTexture("m1", t)
    \/ \E v \in BOOLEAN : SetTexturesEnabled(v)
    \/ \E v \in BOOLEAN : SetDiffuseTextureEnabled(v)
    \/ \E n \in 0..MaxLights : SetLightCount(n)
    \/ \E v \in BOOLEAN : SetFogMode(v)
    \/ \E v \in BOOLEAN : SetFrozen("m1", v)
    \/ \E v \in BOOLEAN : SetCheckReadyOnEveryCall("m1", v)
    \/ \E s \in Meshes, v \in BOOLEAN : SetInstances(s, v)

Spec == Init /\ [][Next]_vars

\* The same material with texture "t1" assigned before the first frame.
InitTextured ==
    Setup([m \in Materials |-> "A"], [m \in Materials |-> IF m = "m1" THEN "t1" ELSE None],
          [m \in Materials |-> FALSE], [s \in Meshes |-> "m1"])

TexturedSpec == InitTextured /\ [][Next]_vars

\* Two materials, one per mesh, of equal or different names, sharing texture
\* "t1" or without texture.
InitShare ==
    \E n \in Names, t \in {"t1", None} :
        Setup([m \in Materials |-> IF m = "m1" THEN "A" ELSE n],
              [m \in Materials |-> t], [m \in Materials |-> FALSE],
              [s \in Meshes |-> IF s = "a" THEN "m1" ELSE "m2"])

NextShare ==
    \/ \E m \in Materials : Poll(m)
    \/ \E e \in DOMAIN effects : EffectFailed(e)
    \/ \E m \in Materials, t \in {"t1", None} : SetDiffuseTexture(m, t)
    \/ \E n \in 0..MaxLights : SetLightCount(n)
    \/ \E m \in Materials, s \in Meshes : SetMeshMaterial(s, m)
    \/ \E m \in Materials, f \in BOOLEAN : Dispose(m, f)

ShareSpec == InitShare /\ [][NextShare]_vars


\* ------------------------------------------------------------- properties
\* The sub-meshes the renderer checks: those of a mesh that has a material.
Users == {s \in Meshes : meshMaterial[s] \in Materials}

\* What the renderer's isReadyForSubMesh call for sub-mesh s does in this state.
Call(s) == IsReadyForSubMeshResult(meshMaterial[s], s, instanced[s])

TextureOf(s) == mat[meshMaterial[s]]._diffuseTexture

TextureNotReady(s) == TextureOf(s) # None /\ ~TextureIsReady(TextureOf(s))

TexturesDirty(s) ==
    sub[s]._materialDefines = NoDefines \/ sub[s]._materialDefines[1]._areTexturesDirty

Range(f) == {f[i] : i \in DOMAIN f}

\* C1 as stated: every isReadyForSubMesh call made while the diffuse texture is
\* set and not ready returns false and leaves _renderId unchanged.
C1_NotReadyTextureAlwaysBlocks ==
    \A s \in Users :
        TextureNotReady(s) =>
            /\ ~Call(s).result
            /\ Call(s)._renderId = mat[meshMaterial[s]]._renderId

\* C1 amended: a call made while the diffuse texture is set and not ready
\* returns false and leaves _renderId unchanged when it reaches the textures
\* domain: neither short-circuit answers it, the sub-mesh's defines are
\* textures-dirty, and textures are enabled on the scene and for StandardMaterial.
C1_NotReadyTextureBlocksEvaluation ==
    \A s \in Users :
        (/\ TextureNotReady(s)
         /\ ~FrozenReady(meshMaterial[s], s)
         /\ ~SameFrameReady(meshMaterial[s], s)
         /\ TexturesDirty(s)
         /\ texturesEnabled /\ DiffuseTextureEnabled) =>
            /\ ~Call(s).result
            /\ Call(s)._renderId = mat[meshMaterial[s]]._renderId
            /\ Call(s)._wasPreviouslyReady = mat[meshMaterial[s]]._wasPreviouslyReady

\* C1 witness: a sub-mesh that was ready in an earlier frame is checked again
\* after a texture that is still loading was assigned.
C1_Witness ==
    \E s \in Users :
        /\ TextureNotReady(s) /\ TexturesDirty(s)
        /\ sub[s].effect # NoEffect /\ EffectIsReady(sub[s].effect)
        /\ mat[meshMaterial[s]]._wasPreviouslyReady
        /\ Call(s).path = "textureNotReady"

\* C2 as stated: for a frozen material that has returned ready before, every
\* later call returns true at once, touching no defines and compiling nothing.
C2_FrozenAlwaysShortCircuits ==
    \A s \in Users :
        (mat[meshMaterial[s]].checkReadyOnlyOnce
         /\ mat[meshMaterial[s]]._wasPreviouslyReady) =>
            /\ Call(s).result
            /\ Call(s).defines = sub[s]._materialDefines
            /\ Call(s).request = NoRequest

\* C2 amended: for a frozen material that has returned ready before, every
\* later call for a sub-mesh that holds a program returns true at once,
\* leaving the sub-mesh's defines and effect as they are and compiling nothing.
C2_FrozenShortCircuitsWithEffect ==
    \A s \in Users :
        (/\ mat[meshMaterial[s]].checkReadyOnlyOnce
         /\ mat[meshMaterial[s]]._wasPreviouslyReady
         /\ sub[s].effect # NoEffect) =>
            /\ Call(s).result
            /\ Call(s).path = "frozen"
            /\ Call(s).defines = sub[s]._materialDefines
            /\ Call(s).effect = sub[s].effect
            /\ Call(s).request = NoRequest

\* C2 witness: the frozen short-circuit answers for a sub-mesh whose defines
\* were marked lights-dirty by a change of the scene's lights, in a later frame.
C2_Witness ==
    \E s \in Users :
        /\ FrozenReady(meshMaterial[s], s)
        /\ sub[s]._materialDefines # NoDefines
        /\ sub[s]._materialDefines[1]._areLightsDirty
        /\ sub[s]._materialDefines[1].LIGHTS # lightCount
        /\ mat[meshMaterial[s]]._renderId # renderId

\* C3 as stated: for a non-frozen material with checkReadyOnEveryCall false,
\* whenever the scene's render id equals _renderId the call returns true
\* without creating or changing the defines and without compiling.
C3_SameFrameAlwaysShortCircuits ==
    \A s \in Users :
        (/\ ~mat[meshMaterial[s]].checkReadyOnlyOnce
         /\ ~mat[meshMaterial[s]].checkReadyOnEveryCall
         /\ mat[meshMaterial[s]]._renderId = renderId) =>
            /\ Call(s).result
            /\ Call(s).defines = sub[s]._materialDefines
            /\ Call(s).request = NoRequest

\* C3 amended: the same, for a sub-mesh that holds a program.
C3_SameFrameShortCircuitsWithEffect ==
    \A s \in Users :
        (/\ ~mat[meshMaterial[s]].checkReadyOnlyOnce
         /\ ~mat[meshMaterial[s]].checkReadyOnEveryCall
         /\ mat[meshMaterial[s]]._renderId = renderId
         /\ sub[s].effect # NoEffect) =>
            /\ Call(s).result
            /\ Call(s).path = "sameFrame"
            /\ Call(s).defines = sub[s]._materialDefines
            /\ Call(s).effect = sub[s].effect
            /\ Call(s).request = NoRequest

\* C3 witness: the frame-counter short-circuit answers for a sub-mesh whose
\* defines a change made in that frame has marked dirty.
C3_Witness ==
    \E s \in Users :
        /\ ~mat[meshMaterial[s]].checkReadyOnlyOnce
        /\ SameFrameReady(meshMaterial[s], s)
        /\ sub[s]._materialDefines # NoDefines
        /\ sub[s]._materialDefines[1]._isDirty

\* C4: once a call has issued a compile request for a sub-mesh, a further call
\* for it issues none as long as its material's texture, its mesh (material,
\* instances) and the scene's features are unchanged -- in any frame, whether
\* the program is pending, ready or failed, frozen or not.
C4_NoRecompileWhileUnchanged ==
    (stable # None /\ stable \in Users) => Call(stable).request = NoRequest

\* C4 witness: the sub-mesh of the last compile request is checked in a later
\* frame, its program ready, with nothing changed since the request.
C4_Witness ==
    /\ stable # None /\ stable \in Users
    /\ sub[stable].effect # NoEffect /\ EffectIsReady(sub[stable].effect)
    /\ renderId > 0
    /\ Call(stable).path = "full"

\* C8: a call that leaves the sub-mesh with a program whose compilation
\* failed returns false.
C8_FailedProgramNeverReady ==
    \A s \in Users :
        (Call(s).effect # NoEffect /\ StatusAfter(Call(s).effect) = "failed")
            => ~Call(s).result

\* C10: a compile request carries DIFFUSE only if the material's diffuse
\* texture is present and ready at that moment.
C10_DiffuseOnlyWithReadyTexture ==
    \A s \in Users :
        (Call(s).request # NoRequest
         /\ "DIFFUSE" \in Range(Call(s).request[1].defines)) =>
            (TextureOf(s) # None /\ TextureIsReady(TextureOf(s)))


\* C5 as stated: materials whose names differ or not resolve the same defines
\* to the same program -- the lookup key of a request does not depend on the
\* material's name.
C5_KeyIgnoresName ==
    \A s \in Users : \A m \in Live :
        sub[s].effect # NoEffect =>
            Request(m, sub[s]._materialDefines[1]).key = sub[s].effect

\* C5 amended: the lookup key is the material's name followed by the defines
\* string, so another material's request for the same defines resolves to the
\* program a sub-mesh holds exactly when both materials have the same name.
C5_KeyIsNameAndDefines ==
    \A s \in Users : \A m \in Live :
        sub[s].effect # NoEffect =>
            /\ sub[s].effect = Request(meshMaterial[s], sub[s]._materialDefines[1]).key
            /\ (Request(m, sub[s]._materialDefines[1]).key = sub[s].effect
                    <=> mat[m].name = mat[meshMaterial[s]].name)

\* C5 witness: a mesh was moved from one material to another of a different
\* name and was compiled again for the same defines: two programs exist for
\* one defines string.
C5_Witness ==
    \E s \in Users : \E e \in DOMAIN effects :
        /\ sub[s].effect # NoEffect
        /\ e # sub[s].effect
        /\ e[2] = sub[s].effect[2]
        /\ \E m \in Live : mat[m].name = e[1] /\ m # meshMaterial[s]

\* C7: a disposed texture is the diffuse texture of no material that is still
\* in use -- disposing a material leaves a texture it shares undisposed.
C7_SharedTextureSurvivesDispose ==
    \A t \in Textures :
        texState[t] = "disposed" =>
            \A m \in Live : mat[m]._diffuseTexture # t

\* ----------------------------------------------------------- recovery
\* One material on both meshes with texture "t1" still loading; the renderer
\* polls every sub-mesh in every frame, the texture and the programs load, and
\* nothing fails.
NextLive ==
    \/ \E s \in Meshes : IsReadyForSubMesh("m1", s)
    \/ Render
    \/ TextureLoaded("t1")
    \/ \E e \in DOMAIN effects : EffectCompiled(e)
    \/ \E t \in {"t1", None} : SetDiffuseTexture("m1", t)
    \/ \E v \in BOOLEAN : SetTexturesEnabled(v)
    \/ \E n \in 0..MaxLights : SetLightCount(n)
    \/ \E v \in BOOLEAN : SetFrozen("m1", v)
    \/ \E s \in Meshes, v \in BOOLEAN : SetInstances(s, v)

Fairness ==
    /\ \A s \in Meshes : WF_vars(IsReadyForSubMesh("m1", s))
    /\ WF_vars(TextureLoaded("t1"))
    /\ WF_vars(\E e \in DOMAIN effects : EffectCompiled(e))

LiveSpec == InitTextured /\ [][NextLive]_vars /\ Fairness

\* C9: polled in every frame, with the texture and the programs loading in
\* the end, a sub-mesh that is not ready becomes ready: no not-ready return
\* leaves it in a state from which it never returns true.
C9_NotReadyRecovers ==
    \A s \in Meshes : (~Call(s).result) ~> Call(s).result

\* C9 witness: a sub-mesh that started with its texture loading and no
\* program is ready with the texture in its program.
C9_Witness ==
    \E s \in Users :
        /\ sub[s].effect # NoEffect /\ EffectIsReady(sub[s].effect)
        /\ "DIFFUSE" \in Range(sub[s].effect[2])
        /\ TextureOf(s) = "t1" /\ TextureIsReady("t1")
        /\ Call(s).result /\ Call(s).path = "full"


\* ------------------------------------------------- defines and requests
\* The defines of sub-mesh s a call works on: its own, or new ones (lines
\* 111-115).
DefinesOf(s) ==
    IF sub[s]._materialDefines = NoDefines
    THEN CustomMaterialDefines ELSE sub[s]._materialDefines[1]

DirtyBits(d) ==
    <<d._isDirty, d._areTexturesDirty, d._areLightsDirty, d._areMiscDirty,
      d._areAttributesDirty>>

\* C11: a compile request issued while the material has no diffuse texture
\* carries no DIFFUSE, also after a ready texture was removed.
C11_NoTextureNoDiffuse ==
    \A s \in Users :
        (Call(s).request # NoRequest /\ TextureOf(s) = None) =>
            "DIFFUSE" \notin Range(Call(s).request[1].defines)

\* C12: a call that returns false because the diffuse texture is not loaded
\* leaves the sub-mesh's defines unprocessed -- every dirty bit as it was,
\* textures-dirty and the aggregate bit set --, issues no compile request and
\* leaves the sub-mesh's program as it is.
C12_NotReadyLeavesDefinesUnprocessed ==
    \A s \in Users :
        Call(s).path = "textureNotReady" =>
            /\ ~Call(s).result
            /\ DirtyBits(Call(s).defines[1]) = DirtyBits(DefinesOf(s))
            /\ Call(s).defines[1]._areTexturesDirty
            /\ Call(s).defines[1]._isDirty
            /\ Call(s).request = NoRequest
            /\ Call(s).effect = sub[s].effect

\* C12 witness: a sub-mesh that holds a ready program is polled in a later
\* frame while the texture assigned to its material is still loading.
C12_Witness ==
    \E s \in Users :
        /\ Call(s).path = "textureNotReady"
        /\ sub[s].effect # NoEffect /\ EffectIsReady(sub[s].effect)
        /\ sub[s]._materialDefines # NoDefines
        /\ mat[meshMaterial[s]]._renderId # renderId

\* C16: a call returns true only for a sub-mesh that holds, after the call, a
\* program that is ready -- on every return path and with the sub-meshes of
\* one material sharing its _renderId and _wasPreviouslyReady.
C16_TrueOnlyWithReadyProgram ==
    \A s \in Users :
        Call(s).result =>
            (Call(s).effect # NoEffect /\ StatusAfter(Call(s).effect) = "ready")


\* The domains a call for sub-mesh s goes through before it returns or reaches
\* "Get correct effect" (lines 126-151).
AllDomains == {"Textures", "Misc", "Lights", "FrameBoundValues", "Attribs"}

DomainsEvaluated(s) ==
    CASE Call(s).path = "full" -> AllDomains
      [] Call(s).path = "textureNotReady" -> {"Textures"}
      [] OTHER -> {}

\* The call marks the defines of sub-mesh s processed.
MarksProcessed(s) ==
    /\ Call(s).path = "full"
    /\ PrepareDefines(s, TexturesDomain(DefinesOf(s), TextureOf(s)).defines,
                      instanced[s])._isDirty

\* The defines d hold what every domain computes for sub-mesh s in this state.
UpToDate(s, d) ==
    /\ d.FOG = sceneFog
    /\ d.LIGHTS = Min(lightCount, maxSimultaneousLights)
    /\ d._needNormals = (d.LIGHTS > 0)
    /\ d.INSTANCES = instanced[s]
    /\ d.NUM_BONE_INFLUENCERS = MeshBoneInfluencers[s]
    /\ d.NORMAL = (d._needNormals /\ MeshHasNormals[s])
    /\ d.UV1 = (d._needUVs /\ MeshHasUV[s])
    /\ d._needUVs = (texturesEnabled /\ DiffuseTextureEnabled /\ TextureOf(s) # None)

\* C13: defines are marked processed, and a compile request derived from
\* them, only in a pass that went through the textures, misc, lights,
\* frame-bound and attributes domains; the defines the request is derived
\* from hold what each of these domains computes from the scene, the mesh and
\* the material at that moment.
C13_ProcessedOnlyAfterAllDomains ==
    \A s \in Users :
        LET r == Call(s)
        IN  (MarksProcessed(s) \/ r.request # NoRequest) =>
                /\ DomainsEvaluated(s) = AllDomains
                /\ MarksProcessed(s) /\ r.request # NoRequest
                /\ toString(r.defines[1]) = r.request[1].defines
                /\ UpToDate(s, r.defines[1])

\* C13 witness: a sub-mesh that holds a program is about to get another
\* variant, after the scene's lights changed.
C13_Witness ==
    \E s \in Users :
        /\ Call(s).request # NoRequest
        /\ sub[s].effect # NoEffect
        /\ Call(s).request[1].key # sub[s].effect
        /\ Call(s).defines[1].LIGHTS # DefinesOf(s).LIGHTS


\* ------------------------------------------------------------ fallbacks
FogStep == <<1, "FOG">>

CPUSkinningStep == <<0, "CPUSkinning">>

\* The steps of fallback chain f that are named n.
StepsNamed(f, n) == {i \in DOMAIN f : f[i][2] = n}

\* C14: a compile request for a sub-mesh whose mesh has more bone influencers
\* than the hardware supports, whatever that limit is, carries the
\* CPU-skinning fallback step.
C14_SkinningFallbackForBones ==
    \A s \in Users :
        (/\ Call(s).request # NoRequest
         /\ \E limit \in 0..MeshBoneInfluencers[s] : MeshBoneInfluencers[s] > limit) =>
            StepsNamed(Call(s).request[1].fallbacks, "CPUSkinning") # {}

\* C14 witness: the skinned mesh is compiled again, with fog, after its first
\* program was made.
C14_Witness ==
    \E s \in Users :
        /\ MeshBoneInfluencers[s] > 0
        /\ sub[s].effect # NoEffect
        /\ Call(s).request # NoRequest
        /\ Call(s).request[1].key # sub[s].effect

\* C17 as stated: the chain of a compile request is in increasing rank in the
\* order fog removal, shadow fallbacks, CPU skinning; the fog step is there
\* exactly when FOG is set and ranks lower than the CPU-skinning step when
\* both are there.
C17_ChainInIncreasingRank ==
    \A s \in Users :
        Call(s).request # NoRequest =>
            LET f == Call(s).request[1].fallbacks
            IN  /\ \A i, j \in DOMAIN f : i < j => f[i][1] <= f[j][1]
                /\ (StepsNamed(f, "FOG") # {}) <=> Call(s).defines[1].FOG
                /\ \A i \in StepsNamed(f, "FOG") : \A j \in StepsNamed(f, "CPUSkinning") :
                       f[i][1] < f[j][1]

\* C17 amended: the chain is built in the order fog removal, light fallbacks,
\* CPU skinning; the fog step is there exactly when FOG is set, first and with
\* rank 1; the light steps follow in increasing rank from 1; the CPU-skinning
\* step is there exactly when the defines count bone influencers, last in the
\* chain and with rank 0, lower than the rank of every other step.
C17_ChainOrderAndRanks ==
    \A s \in Users :
        LET r == Call(s)
        IN  r.request # NoRequest =>
            LET f == r.request[1].fallbacks
                d == r.defines[1]
            IN  /\ (StepsNamed(f, "FOG") # {}) <=> d.FOG
                /\ StepsNamed(f, "FOG") \subseteq {1}
                /\ d.FOG => f[1] = FogStep
                /\ (StepsNamed(f, "CPUSkinning") # {}) <=> d.NUM_BONE_INFLUENCERS > 0
                /\ StepsNamed(f, "CPUSkinning") \subseteq {Len(f)}
                /\ d.NUM_BONE_INFLUENCERS > 0 => f[Len(f)] = CPUSkinningStep
                /\ \A i, j \in DOMAIN f \ StepsNamed(f, "CPUSkinning") :
                       i < j => (1 <= f[i][1] /\ f[i][1] <= f[j][1])
                /\ \A i \in DOMAIN f \ StepsNamed(f, "CPUSkinning") :
                       CPUSkinningStep[1] < f[i][1]

\* C17 witness: a compile request for the skinned mesh in a scene with fog:
\* the chain holds the fog step and the CPU-skinning step.
C17_Witness ==
    \E s \in Users :
        /\ Call(s).request # NoRequest
        /\ StepsNamed(Call(s).request[1].fallbacks, "FOG") # {}
        /\ StepsNamed(Call(s).request[1].fallbacks, "CPUSkinning") # {}


\* ------------------------------------------------------------- binding
\* One material on both meshes, with or without texture "t1"; the renderer
\* polls and binds the sub-meshes while the lights and the texture change.
InitBind ==
    \E t \in {"t1", None} :
        Setup([m \in Materials |-> "A"],
              [m \in Materials |-> IF m = "m1" THEN t ELSE None],
              [m \in Materials |-> FALSE], [s \in Meshes |-> "m1"])

NextBind ==
    \/ Poll("m1")
    \/ \E s \in Meshes : BindForSubMesh("m1", s)
    \/ \E n \in 0..MaxLights : SetLightCount(n)
    \/ \E t \in {"t1", None} : SetDiffuseTexture("m1", t)

BindSpec == InitBind /\ [][NextBind]_vars

\* The values bindForSubMesh writes inside its _mustRebind block (lines 255-273).
SwitchScopedNames ==
    {"diffuseSampler", "vDiffuseInfos", "diffuseMatrix", "vClipPlane", "pointSize",
     "vEyePosition"}

\* bindForSubMesh for sub-mesh s gets past its two early returns (lines 237-245).
Bindable(s) == sub[s]._materialDefines # NoDefines /\ sub[s].effect # NoEffect

\* C15 as stated: a bindForSubMesh call that uses the program the previous
\* bindForSubMesh call used (the material's _activeEffect; one material draws
\* here) writes none of the program-switch-scoped values.
C15_SameProgramNoSwitchWrites ==
    \A s \in Users :
        (/\ Bindable(s) /\ EffectIsReady(sub[s].effect)
         /\ mat[meshMaterial[s]]._activeEffect = sub[s].effect) =>
            BindForSubMeshWrites(meshMaterial[s], s) \cap SwitchScopedNames = {}

\* C15 amended: a bindForSubMesh call writes none of the program-switch-scoped
\* values when the scene's cached material and effect are this material and
\* this program -- the previous bind was this material's with the same program
\* and no isReadyForSubMesh pass has reset the cached material since --, and
\* writes them in every other case.
C15_NoSwitchWritesWhileCached ==
    \A s \in Users :
        Bindable(s) =>
            BindForSubMeshWrites(meshMaterial[s], s) \cap SwitchScopedNames
                = IF cached = [material |-> meshMaterial[s], effect |-> sub[s].effect]
                  THEN {}
                  ELSE SwitchScopedWrites(meshMaterial[s])

\* C15 witness: a textured sub-mesh was bound and is bound again with the
\* same ready program.
C15_Witness ==
    \E s \in Users :
        /\ Bindable(s) /\ EffectIsReady(sub[s].effect)
        /\ cached = [material |-> meshMaterial[s], effect |-> sub[s].effect]
        /\ mat[meshMaterial[s]]._activeEffect = sub[s].effect
        /\ "diffuseSampler" \in SwitchScopedWrites(meshMaterial[s])

\* C18: an isReadyForSubMesh pass that issues a compile request resets the
\* scene's cached material, so that the next bindForSubMesh of any sub-mesh
\* writes the program-switch-scoped values again; a pass that issues none
\* leaves the cached material as it is.
C18_CompileResetsCachedMaterial ==
    [][\A s \in Meshes :
          IsReadyForSubMesh("m1", s) =>
              IF Call(s).request # NoRequest
              THEN /\ cached' = NoCached
                   /\ \A s2 \in Meshes :
                          Bindable(s2)' =>
                              SwitchScopedWrites("m1")' \subseteq BindForSubMeshWrites("m1", s2)'
              ELSE cached' = cached]_vars

\* C18 witness: a sub-mesh was bound, then a pass compiled and reset the
\* cached material: the next bind of that sub-mesh uses the program of the
\* previous draw.
C18_Witness ==
    \E s \in Users :
        /\ Bindable(s) /\ EffectIsReady(sub[s].effect)
        /\ mat[meshMaterial[s]]._activeEffect = sub[s].effect
        /\ cached = NoCached
        /\ stable \in Meshes \ {s}


\* --------------------------------------------------------- construction
\* The custom code objects handed to the constructor: null, the complete
\* object, the objects that lack one member, and the empty object.
Codes ==
    {NullCode, [isNull |-> FALSE, own |-> {}]}
    \cup {[isNull |-> FALSE, own |-> Callbacks \ X] : X \in {{}} \cup {{c} : c \in Callbacks}}

\* The interface's callbacks besides the constructor.
Required == Callbacks \ {"constructor"}

ValidCode(code) == ~code.isNull /\ Required \subseteq code.own

\* new CustomMaterial(name, scene, customCode) (lines 84-89): the code is
\* stored, then customCode.constructor is called. Reading .constructor of null
\* throws a TypeError; every object has a callable .constructor, its own or
\* the one it inherits from Object, and nothing else of the code is looked at.
Constructor(name, customCode) ==
    IF customCode.isNull
    THEN [thrown |-> "TypeError", material |-> <<>>]
    ELSE [thrown |-> None,
          material |-> <<[NewMaterial(name) EXCEPT !._customCode = customCode]>>]

\* The material variable m is given what the construction r returns, if it
\* returns; m is a material no mesh uses.
Assign(m, r) ==
    /\ \A s \in Meshes : meshMaterial[s] # m
    /\ thrown' = r.thrown
    /\ mat' = IF r.thrown = None THEN [mat EXCEPT ![m] = r.material[1]] ELSE mat
    /\ UNCHANGED <<renderId, texturesEnabled, DiffuseTextureEnabled, lightCount,
                   sceneFog, texState, meshMaterial, instanced, sub, effects, cached,
                   stable, changes, folders>>

\* m = new CustomMaterial(name, scene, customCode).
Construct(m, name, customCode) == Assign(m, Constructor(name, customCode))

\* m = source.clone(name) (lines 333-335): constructed with the source's
\* custom code; the source has no texture to copy.
Clone(source, m, name) ==
    /\ source \in Live /\ source # m
    /\ mat[source]._diffuseTexture = None
    /\ Assign(m, Constructor(name, mat[source]._customCode))

\* m = CustomMaterial.Parse(source, scene, rootUrl) (lines 348-350):
\* constructed with null for custom code.
Parse(m, name) == Assign(m, Constructor(name, NullCode))

\* One material on both meshes; a second one is constructed again and again,
\* directly, by clone or by Parse, given to meshes and checked for readiness.
NextHook ==
    \/ \E name \in Names, code \in Codes : Construct("m2", name, code)
    \/ \E name \in Names : Clone("m1", "m2", name)
    \/ \E name \in Names : Parse("m2", name)
    \/ \E s \in Meshes, m \in Materials : SetMeshMaterial(s, m)
    \/ \E s \in Meshes, m \in Materials : IsReadyForSubMesh(m, s)
    \/ \E e \in DOMAIN effects : EffectCompiled(e)

HookSpec == Init /\ [][NextHook]_vars

\* C19: no material whose custom code is null or lacks a required callback
\* comes out of a constructor call to be used by a mesh in isReadyForSubMesh
\* and bindForSubMesh: the constructor throws for every such code.
C19_InvalidCodeRejected ==
    \A s \in Users : ValidCode(mat[meshMaterial[s]]._customCode)


\* ------------------------------------------------------ Edition.addVector
\* The vector classes addVector accepts, with their components.
Components ==
    [Vector2 |-> <<"x", "y">>, Vector3 |-> <<"x", "y", "z">>,
     Vector4 |-> <<"x", "y", "z", "w">>]

VectorClasses == DOMAIN Components

FolderNames == {"position", "rotation", "scaling", "direction"}

\* vector instanceof class: none of the classes extends another.
InstanceOf(vector, class) == vector = class

\* The controllers addVector adds to the folder, in order (lines 160-167).
addVectorControllers(vector) ==
    <<"x", "y">>
    \o (IF InstanceOf(vector, "Vector3") \/ InstanceOf(vector, "Vector4")
        THEN <<"z">> ELSE <<>>)
    \o (IF InstanceOf(vector, "Color4") THEN <<"w">> ELSE <<>>)

\* addVector(parent, name, vector) (lines 158-170); dat.GUI refuses a second
\* folder of the same name.
addVector(name, vector) ==
    /\ name \notin DOMAIN folders
    /\ folders' = folders @@ (name :> [vector |-> vector,
                                       controllers |-> addVectorControllers(vector)])
    /\ UNCHANGED <<renderId, texturesEnabled, DiffuseTextureEnabled, lightCount,
                   sceneFog, texState, mat, meshMaterial, instanced, sub, effects,
                   cached, stable, changes, thrown>>

NextGui == \E name \in FolderNames, vector \in VectorClasses : addVector(name, vector)

GuiSpec == InitTextured /\ [][NextGui]_vars

\* C20: addVector adds exactly one controller per component of the vector:
\* x, y for a Vector2, x, y, z for a Vector3 and x, y, z, w for a Vector4.
C20_OneControllerPerComponent ==
    \A name \in DOMAIN folders :
        folders[name].controllers = Components[folders[name].vector]

====
